---- MODULE Spec2Model ----
(***************************************************************************)
(* Model of the inference engine of Analise_Semantica: src/analyzer.py     *)
(* (key detection, profiling, rule mining, implicit relationships,         *)
(* workflow mining) and its driver run_analysis in src/main.py.            *)
(*                                                                         *)
(* A DataFrame is a record                                                 *)
(*    [columns |-> <<name, ...>>, dtypes |-> <<dtype, ...>>,               *)
(*     data |-> <<series, ...>>, n |-> row count]                          *)
(* where a series is a sequence of cells of length n.  A cell is NaN (the  *)
(* pandas missing value) or a one-element tuple <<v>> holding the value.   *)
(* Integer and float columns hold integers, object columns hold strings,   *)
(* datetime columns hold day numbers.  A ratio is a pair <<num, den>>.     *)
(***************************************************************************)
EXTENDS Integers, Sequences, FiniteSets, TLC

VARIABLES
    INPUT_FILES,    \* main.py: the discovered input files, in dict order
    pc,             \* position of the driver inside run_analysis
    idx,            \* index of the next file of the loop over INPUT_FILES
    analysis,       \* the analysis dict run_analysis builds
    run,            \* number of the run_analysis call in progress
    first,          \* what the previous run_analysis call returned
    sort_ties,      \* how this build's quicksort orders rows of equal key
    args,           \* arguments of a direct call of an analyzer function
    ret,            \* what the direct call returned
    env,            \* main.py: the API key variable, standard input, the API
    reports,        \* main.py: the files of the reports directory
    stdout          \* main.py: the lines printed by the main block

vars == <<INPUT_FILES, pc, idx, analysis, run, first, sort_ties, args, ret, env, reports, stdout>>

----------------------------------------------------------------------------
(* pandas primitives used by the analyzer *)

NaN == <<>>

None == [none |-> TRUE]

Range(s) == {s[i] : i \in DOMAIN s}

Min(a, b) == IF a <= b THEN a ELSE b

RECURSIVE Concat(_)
Concat(ss) == IF ss = <<>> THEN <<>> ELSE Head(ss) \o Concat(Tail(ss))

isnull(c) == c = NaN

dropna(s) == SelectSeq(s, LAMBDA c : ~isnull(c))

RECURSIVE unique(_)
unique(s) ==
    IF s = <<>> THEN <<>>
    ELSE LET init == unique(SubSeq(s, 1, Len(s) - 1))
             last == s[Len(s)]
         IN  IF last \in Range(init) THEN init ELSE Append(init, last)

nunique(s) == Cardinality(Range(s) \ {NaN})

is_unique(s) == Cardinality(Range(s)) = Len(s)

isnull_any(s) == \E i \in DOMAIN s : isnull(s[i])

isnull_all(s) == \A i \in DOMAIN s : isnull(s[i])

isnull_sum(s) == Cardinality({i \in DOMAIN s : isnull(s[i])})

Take(s, k) == SubSeq(s, 1, Min(k, Len(s)))

ColIdx(df, col) == CHOOSE i \in DOMAIN df.columns : df.columns[i] = col

HasCol(df, col) == \E i \in DOMAIN df.columns : df.columns[i] = col

Series(df, col) == df.data[ColIdx(df, col)]

Dtype(df, col) == df.dtypes[ColIdx(df, col)]

(* str.endswith, str.startswith and the `in` operator on strings *)
endswith(name, suffix) ==
    /\ Len(name) >= Len(suffix)
    /\ SubSeq(name, Len(name) - Len(suffix) + 1, Len(name)) = suffix

startswith(name, prefix) ==
    /\ Len(name) >= Len(prefix)
    /\ SubSeq(name, 1, Len(prefix)) = prefix

contains(name, tok) ==
    \E i \in 1..(Len(name) - Len(tok) + 1) : SubSeq(name, i, i + Len(tok) - 1) = tok

----------------------------------------------------------------------------
(* Key detection *)

find_primary_keys(df) ==
    SelectSeq(df.columns,
              LAMBDA col : is_unique(Series(df, col)) /\ ~isnull_any(Series(df, col)))

find_foreign_keys(df) == SelectSeq(df.columns, LAMBDA col : endswith(col, "_id"))

detect_dead_column(series) == isnull_all(series) \/ nunique(series) <= 1

----------------------------------------------------------------------------
(* Ratios: <<num, den>> with den > 0; Python's `x / n if n else 0` *)

Zero == <<0, 1>>

Ratio(k, n) == IF n # 0 THEN <<k, n>> ELSE Zero

RatioLT(a, b) == a[1] * b[2] < b[1] * a[2]

RatioLE(a, b) == a[1] * b[2] <= b[1] * a[2]

(* str.lower, on the letters that occur in column names *)
LowerOf ==
    [A |-> "a", B |-> "b", C |-> "c", D |-> "d", E |-> "e", F |-> "f", G |-> "g",
     H |-> "h", I |-> "i", J |-> "j", K |-> "k", L |-> "l", M |-> "m", N |-> "n",
     O |-> "o", P |-> "p", Q |-> "q", R |-> "r", S |-> "s", T |-> "t", U |-> "u",
     V |-> "v", W |-> "w", X |-> "x", Y |-> "y", Z |-> "z"]

RECURSIVE lower(_)
lower(name) ==
    IF Len(name) = 0 THEN name
    ELSE LET ch == SubSeq(name, 1, 1)
         IN  (IF ch \in DOMAIN LowerOf THEN LowerOf[ch] ELSE ch)
                 \o lower(SubSeq(name, 2, Len(name)))

(* Series.astype(str) on one value: floats print with a decimal point,    *)
(* a timestamp prints as its date (here the day number, tagged)           *)
astype_str(v, dtype) ==
    IF dtype = "object" THEN v
    ELSE IF dtype = "float64" THEN ToString(v) \o ".0"
    ELSE IF dtype = "datetime64[ns]" THEN "day " \o ToString(v)
    ELSE ToString(v)

Examples(df, col, k) ==
    LET u == Take(unique(dropna(Series(df, col))), k)
    IN  [i \in DOMAIN u |-> astype_str(u[i][1], Dtype(df, col))]

----------------------------------------------------------------------------
(* Column profiling *)

threshold_unique == <<1, 10>>

threshold_null == <<1, 10>>

business_entry(df, col) ==
    [col |-> col,
     unique_pct |-> Ratio(nunique(Series(df, col)), df.n),
     null_pct |-> Ratio(isnull_sum(Series(df, col)), df.n),
     sample |-> Examples(df, col, 5)]

find_business_fields(df) ==
    LET cand == SelectSeq(df.columns,
                    LAMBDA col :
                        /\ RatioLT(Ratio(nunique(Series(df, col)), df.n), threshold_unique)
                        /\ RatioLT(Ratio(isnull_sum(Series(df, col)), df.n), threshold_null))
    IN  [i \in DOMAIN cand |-> business_entry(df, cand[i])]

TEMPORAL_TOKENS ==
    {"date", "data", "time", "inicio", "inicio_", "fim", "end", "updated", "created"}

(* mutant of MONETARY_TOKENS: the token '_total' is missing *)
MONETARY_TOKENS_without_total == {"valor", "value", "amount", "preco", "price"}

MONETARY_TOKENS == {"valor", "value", "amount", "preco", "price", "_total"}

categorize_boolean(sample_name) ==
    /\ Len(sample_name) > 0
    /\ LET name == lower(sample_name)
       IN  \/ startswith(name, "is_")
           \/ endswith(name, "_flag")
           \/ name \in {"ativo", "active", "valid"}

categorize_column(col_name, dtype) ==
    LET name == lower(col_name)
    IN  IF endswith(name, "_id") THEN "relacional"
        ELSE IF endswith(name, "_at") \/ \E tok \in TEMPORAL_TOKENS : contains(name, tok)
             THEN "temporal"
        ELSE IF name \in {"ativo", "active"} \/ categorize_boolean(name) THEN "boolean"
        ELSE IF \E token \in MONETARY_TOKENS : contains(name, token) THEN "monetaria"
        ELSE IF contains(name, "status") \/ contains(name, "validation")
                    \/ contains(name, "check")
             THEN "status"
        ELSE IF startswith(dtype, "int") \/ startswith(dtype, "float") THEN "numerica"
        ELSE "categorica"

(* mutant of column_stats: the two ratios are reported as percentages *)
column_stats_percent(df) ==
    [i \in DOMAIN df.columns |->
        LET col == df.columns[i]
        IN  [col |-> col,
             dtype |-> df.dtypes[i],
             null_pct |-> Ratio(100 * isnull_sum(df.data[i]), df.n),
             unique_pct |-> Ratio(100 * nunique(df.data[i]), df.n),
             examples |-> Examples(df, col, 3),
             category |-> categorize_column(col, df.dtypes[i])]]

column_stats(df) ==
    [i \in DOMAIN df.columns |->
        LET col == df.columns[i]
        IN  [col |-> col,
             dtype |-> df.dtypes[i],
             null_pct |-> Ratio(isnull_sum(df.data[i]), df.n),
             unique_pct |-> Ratio(nunique(df.data[i]), df.n),
             examples |-> Examples(df, col, 3),
             category |-> categorize_column(col, df.dtypes[i])]]

----------------------------------------------------------------------------
(* Temporal rules *)

EARLY_TOKENS == {"inicio", "start", "issue", "created", "emissao", "emit", "kick_off"}

LATE_TOKENS == {"fim", "end", "due", "payment", "venc", "updated", "update"}

temporal_cols(df) ==
    SelectSeq(df.columns, LAMBDA c : categorize_column(c, Dtype(df, c)) = "temporal")

(* list(set(rules)): the distinct rule strings, in no particular order;    *)
(* " <= " stands for the " \u2264 " of the f-string                         *)
detect_temporal_rules(df) ==
    LET date_cols == Range(temporal_cols(df))
    IN  {col_a \o " <= " \o col_b :
            <<col_a, col_b>> \in
                {p \in date_cols \X date_cols :
                    /\ p[1] # p[2]
                    /\ \E tok \in EARLY_TOKENS : contains(lower(p[1]), tok)
                    /\ \E tok \in LATE_TOKENS : contains(lower(p[2]), tok)}}

----------------------------------------------------------------------------
(* round(x, 2) and round(x, 3) on the float x = num / den >= 0.            *)
(* Python rounds the binary value of x correctly: a decimal tie            *)
(* (2k+1) / (2 * 10^d) goes up exactly when its nearest double lies above  *)
(* it, or equals it and k is odd.  The two sets list those k.              *)

TIES_UP_2 ==
    {0, 2, 3, 5, 6, 8, 9, 11, 13, 16, 19, 22, 25, 26, 27, 31, 32, 33, 37, 38,
     39, 40, 44, 45, 46, 50, 51, 52, 53, 54, 55, 63, 64, 65, 66, 67, 68, 75,
     76, 77, 78, 79, 80, 87, 88, 89, 90, 91, 92, 93}

TIES_UP_3 ==
    {0, 1, 2, 3, 8, 10, 12, 14, 16, 17, 20, 23, 24, 27, 28, 31, 32, 33, 34,
     39, 40, 41, 42, 47, 48, 49, 50, 55, 56, 57, 58, 63, 64, 65, 66, 67, 68,
     69, 78, 79, 80, 81, 82, 83, 84, 85, 94, 95, 96, 97, 98, 99, 100, 101,
     109, 110, 111, 112, 113, 114, 115, 116, 125, 126, 127, 128, 129, 130,
     131, 132, 133, 134, 135, 136, 137, 138, 139, 140, 156, 157, 158, 159,
     160, 161, 162, 163, 164, 165, 166, 167, 168, 169, 170, 171, 187, 188,
     189, 190, 191, 192, 193, 194, 195, 196, 197, 198, 199, 200, 201, 202,
     219, 220, 221, 222, 223, 224, 225, 226, 227, 228, 229, 230, 231, 232,
     233, 250, 251, 252, 253, 254, 255, 256, 257, 258, 259, 260, 261, 262,
     263, 264, 265, 266, 267, 268, 269, 270, 271, 272, 273, 274, 275, 276,
     277, 278, 279, 280, 313, 314, 315, 316, 317, 318, 319, 320, 321, 322,
     323, 324, 325, 326, 327, 328, 329, 330, 331, 332, 333, 334, 335, 336,
     337, 338, 339, 340, 341, 342, 343, 375, 376, 377, 378, 379, 380, 381,
     382, 383, 384, 385, 386, 387, 388, 389, 390, 391, 392, 393, 394, 395,
     396, 397, 398, 399, 400, 401, 402, 403, 404, 405, 437, 438, 439, 440,
     441, 442, 443, 444, 445, 446, 447, 448, 449, 450, 451, 452, 453, 454,
     455, 456, 457, 458, 459, 460, 461, 462, 463, 464, 465, 466, 467, 468,
     563, 564, 565, 566, 567, 568, 569, 570, 571, 572, 573, 574, 575, 576,
     577, 578, 579, 580, 581, 582, 583, 584, 585, 586, 587, 588, 589, 590,
     591, 592, 593, 594, 595, 596, 597, 598, 599, 600, 601, 602, 603, 604,
     605, 606, 607, 608, 609, 610, 611, 612, 613, 614, 615, 616, 617, 618,
     619, 620, 621, 622, 623, 624, 687, 688, 689, 690, 691, 692, 693, 694,
     695, 696, 697, 698, 699, 700, 701, 702, 703, 704, 705, 706, 707, 708,
     709, 710, 711, 712, 713, 714, 715, 716, 717, 718, 719, 720, 721, 722,
     723, 724, 725, 726, 727, 728, 729, 730, 731, 732, 733, 734, 735, 736,
     737, 738, 739, 740, 741, 742, 743, 744, 745, 746, 747, 748, 749, 813,
     814, 815, 816, 817, 818, 819, 820, 821, 822, 823, 824, 825, 826, 827,
     828, 829, 830, 831, 832, 833, 834, 835, 836, 837, 838, 839, 840, 841,
     842, 843, 844, 845, 846, 847, 848, 849, 850, 851, 852, 853, 854, 855,
     856, 857, 858, 859, 860, 861, 862, 863, 864, 865, 866, 867, 868, 869,
     870, 871, 872, 873, 874, 937, 938, 939, 940, 941, 942, 943, 944, 945,
     946, 947, 948, 949, 950, 951, 952, 953, 954, 955, 956, 957, 958, 959,
     960, 961, 962, 963, 964, 965, 966, 967, 968, 969, 970, 971, 972, 973,
     974, 975, 976, 977, 978, 979, 980, 981, 982, 983, 984, 985, 986, 987,
     988, 989, 990, 991, 992, 993, 994, 995, 996, 997, 998, 999}

Round(x, scale, ties_up) ==
    LET q == (x[1] * scale) \div x[2]
        r == (x[1] * scale) % x[2]
    IN  IF 2 * r < x[2] THEN <<q, scale>>
        ELSE IF 2 * r > x[2] THEN <<q + 1, scale>>
        ELSE IF q \in ties_up THEN <<q + 1, scale>>
        ELSE <<q, scale>>

round2(x) == Round(x, 100, TIES_UP_2)

round3(x) == Round(x, 1000, TIES_UP_3)

----------------------------------------------------------------------------
(* Multivariate rules *)

max_cardinality_default == 10

max_violation_default == <<5, 100>>

cond_rows(df, cond, val) == {i \in 1..df.n : Series(df, cond)[i] = val}

cond_null_pct(df, cond, target, val) ==
    <<Cardinality({i \in cond_rows(df, cond, val) : isnull(Series(df, target)[i])}),
      Cardinality(cond_rows(df, cond, val))>>

(* mutant of within_violation: the comparison is turned around *)
beyond_violation(null_pct, max_violation) == RatioLE(max_violation, null_pct)

within_violation(null_pct, max_violation) == RatioLE(null_pct, max_violation)

rules_for(df, cond, target, max_violation) ==
    LET vals == unique(dropna(Series(df, cond)))
        hit == SelectSeq(vals, LAMBDA val :
                   within_violation(cond_null_pct(df, cond, target, val), max_violation))
    IN  [k \in DOMAIN hit |->
            [condition |-> cond \o " = " \o astype_str(hit[k][1], Dtype(df, cond)),
             requirement |-> target \o " != null",
             violation_pct |-> round3(cond_null_pct(df, cond, target, hit[k]))]]

cond_cols_of(df, max_cardinality) ==
    SelectSeq(df.columns, LAMBDA c : nunique(Series(df, c)) <= max_cardinality)

target_cols_of(df, max_cardinality) ==
    SelectSeq(df.columns, LAMBDA c : c \notin Range(cond_cols_of(df, max_cardinality)))

detect_multivariate_rules(df, max_cardinality, max_violation) ==
    IF df.n = 0 THEN <<>>
    ELSE LET cond_cols == cond_cols_of(df, max_cardinality)
             target_cols == target_cols_of(df, max_cardinality)
         IN  Concat([i \in DOMAIN cond_cols |->
                 Concat([j \in DOMAIN target_cols |->
                     rules_for(df, cond_cols[i], target_cols[j], max_violation)])])

----------------------------------------------------------------------------
(* Dimension candidates *)

max_cardinality_pct_default == <<2, 100>>

detect_dimension_candidates(df, max_cardinality_pct) ==
    IF df.n = 0 THEN <<>>
    ELSE SelectSeq(df.columns, LAMBDA col :
             LET card == Ratio(nunique(Series(df, col)), df.n)
             IN  /\ RatioLT(Zero, card)
                 /\ RatioLE(card, max_cardinality_pct)
                 /\ ~endswith(col, "_id"))

----------------------------------------------------------------------------
(* Ordering of values: numbers by value, Python strings by code point *)

CODE_POINT_ORDER == " 0123456789ABCDEFGHIJKLMNOPQRSTUVWXYZ_abcdefghijklmnopqrstuvwxyz"

ord(ch) == CHOOSE i \in 1..Len(CODE_POINT_ORDER) : SubSeq(CODE_POINT_ORDER, i, i) = ch

RECURSIVE str_lt(_, _)
str_lt(a, b) ==
    IF Len(b) = 0 THEN FALSE
    ELSE IF Len(a) = 0 THEN TRUE
    ELSE IF SubSeq(a, 1, 1) # SubSeq(b, 1, 1)
         THEN ord(SubSeq(a, 1, 1)) < ord(SubSeq(b, 1, 1))
    ELSE str_lt(SubSeq(a, 2, Len(a)), SubSeq(b, 2, Len(b)))

val_lt(v, w, dtype) == IF dtype = "object" THEN str_lt(v, w) ELSE v < w

RECURSIVE sorted(_, _)
sorted(S, dtype) ==
    IF S = {} THEN <<>>
    ELSE LET m == CHOOSE x \in S : \A y \in S \ {x} : val_lt(x, y, dtype)
         IN  <<m>> \o sorted(S \ {m}, dtype)

----------------------------------------------------------------------------
(* Workflow detection *)

status_col_candidates(df) ==
    SelectSeq(df.columns,
              LAMBDA c : contains(lower(c), "status") \/ contains(lower(c), "state"))

qualifying_status_cols(df) ==
    SelectSeq(status_col_candidates(df), LAMBDA c : nunique(Series(df, c)) > 1)

(* mutant of timestamp_usable: the test isnull().all() is dropped *)
timestamp_present(df, timestamp_col) == HasCol(df, timestamp_col)

timestamp_usable(df, timestamp_col) ==
    HasCol(df, timestamp_col) /\ ~isnull_all(Series(df, timestamp_col))

(* df.dropna(subset=[status_col, timestamp_col]): the rows kept *)
kept_rows(df, status_col, timestamp_col) ==
    {i \in 1..df.n : ~isnull(Series(df, status_col)[i])
                     /\ ~isnull(Series(df, timestamp_col)[i])}

(* sort_values(timestamp_col): quicksort is not stable, so rows of equal   *)
(* timestamp come out in an order the build fixes: ties = "first" keeps    *)
(* them in row order, ties = "last" reverses them.                         *)
row_before(df, timestamp_col, ties, i, j) ==
    LET ti == Series(df, timestamp_col)[i][1]
        tj == Series(df, timestamp_col)[j][1]
        dt == Dtype(df, timestamp_col)
    IN  \/ val_lt(ti, tj, dt)
        \/ ti = tj /\ (IF ties = "first" THEN i < j ELSE j < i)

RECURSIVE sort_rows(_, _, _, _)
sort_rows(df, timestamp_col, ties, rows) ==
    IF rows = {} THEN <<>>
    ELSE LET m == CHOOSE i \in rows :
                      \A j \in rows \ {i} : row_before(df, timestamp_col, ties, i, j)
         IN  <<m>> \o sort_rows(df, timestamp_col, ties, rows \ {m})

(* mutant of walk: the test `prev != st` is dropped *)
walk_keeps_repeats(statuses) ==
    {<<statuses[k][1], statuses[k + 1][1]>> : k \in 1..(Len(statuses) - 1)}

(* the walk over one group: every adjacent pair of differing statuses *)
walk(statuses) ==
    {<<statuses[k][1], statuses[k + 1][1]>> :
        k \in {k \in 1..(Len(statuses) - 1) : statuses[k] # statuses[k + 1]}}

(* groupby('invoice_id'): one group per non-null key, rows in sorted order *)
groups_by_invoice(df, df_sorted) ==
    LET key(i) == Series(df, "invoice_id")[i]
        keys == {key(df_sorted[k]) : k \in DOMAIN df_sorted} \ {NaN}
    IN  {SelectSeq(df_sorted, LAMBDA i : key(i) = g) : g \in keys}

(* groupby(df.index): the k-th sorted row is keyed by the k-th index label *)
groups_by_index(df, df_sorted) == {<<df_sorted[k]>> : k \in DOMAIN df_sorted}

workflow_transitions(df, status_col, timestamp_col, ties) ==
    LET df_sorted == sort_rows(df, timestamp_col, ties,
                               kept_rows(df, status_col, timestamp_col))
        grouped == IF HasCol(df, "invoice_id") THEN groups_by_invoice(df, df_sorted)
                   ELSE groups_by_index(df, df_sorted)
    IN  UNION {walk([k \in DOMAIN grp |-> Series(df, status_col)[grp[k]]]) :
                  grp \in grouped}

(* groupby(df.index) on a frame that lost rows: pandas raises ValueError   *)
(* "Grouper and axis must be same length"                                  *)
workflow_raises(df, status_col, timestamp_col) ==
    /\ ~HasCol(df, "invoice_id")
    /\ Cardinality(kept_rows(df, status_col, timestamp_col)) # df.n

NoWorkflow == [kind |-> "empty", status_col |-> "", states |-> <<>>, transitions |-> {}]

WorkflowError ==
    [kind |-> "ValueError", status_col |-> "", states |-> <<>>, transitions |-> {}]

detect_workflow(df, timestamp_col, ties) ==
    IF qualifying_status_cols(df) = <<>> THEN NoWorkflow
    ELSE LET status_col == Head(qualifying_status_cols(df))
             states == sorted({c[1] : c \in Range(Series(df, status_col)) \ {NaN}},
                              Dtype(df, status_col))
         IN  IF ~timestamp_usable(df, timestamp_col)
             THEN [kind |-> "workflow", status_col |-> status_col,
                   states |-> states, transitions |-> {}]
             ELSE IF workflow_raises(df, status_col, timestamp_col) THEN WorkflowError
             ELSE [kind |-> "workflow", status_col |-> status_col, states |-> states,
                   transitions |->
                       workflow_transitions(df, status_col, timestamp_col, ties)]

----------------------------------------------------------------------------
(* Derived fields *)

corr_threshold_default == <<95, 100>>

min_aligned_rows == 10

RECURSIVE SumSeq(_)
SumSeq(xs) == IF xs = <<>> THEN 0 ELSE Head(xs) + SumSeq(Tail(xs))

numeric_cols(df) == SelectSeq(df.columns, LAMBDA c : Dtype(df, c) \in {"int64", "float64"})

is_datetime64_any_dtype(df, col) == Dtype(df, col) = "datetime64[ns]"

(* pd.concat([y, diff], axis=1).dropna(): rows where the number and both dates exist *)
aligned_rows(df, num, a, b) ==
    SelectSeq([i \in 1..df.n |-> i],
              LAMBDA i : /\ ~isnull(Series(df, num)[i])
                         /\ ~isnull(Series(df, a)[i])
                         /\ ~isnull(Series(df, b)[i]))

(* Pearson correlation of y and (b - a).dt.days over the aligned rows, as  *)
(* the triple <<covariance, variance of y, variance of diff>>, each times n^2 *)
corr_parts(df, num, a, b) ==
    LET rows == aligned_rows(df, num, a, b)
        n == Len(rows)
        y == [k \in DOMAIN rows |-> Series(df, num)[rows[k]][1]]
        d == [k \in DOMAIN rows |-> Series(df, b)[rows[k]][1] - Series(df, a)[rows[k]][1]]
        sy == SumSeq(y)
        sd == SumSeq(d)
    IN  <<n * SumSeq([k \in DOMAIN rows |-> y[k] * d[k]]) - sy * sd,
          n * SumSeq([k \in DOMAIN rows |-> y[k] * y[k]]) - sy * sy,
          n * SumSeq([k \in DOMAIN rows |-> d[k] * d[k]]) - sd * sd>>

(* pd.notnull(corr): a constant series has no correlation *)
corr_notnull(c) == c[2] > 0 /\ c[3] > 0

(* abs(corr) >= corr_threshold *)
corr_at_least(c, threshold) ==
    c[1] * c[1] * threshold[2] * threshold[2] >= threshold[1] * threshold[1] * c[2] * c[3]

(* round(float(corr), 2), in hundredths *)
corr_round2(c) ==
    LET k == CHOOSE k \in 0..100 :
                 /\ (2 * k - 1) * (2 * k - 1) * c[2] * c[3] <= 40000 * c[1] * c[1]
                       \/ k = 0
                 /\ 40000 * c[1] * c[1] < (2 * k + 1) * (2 * k + 1) * c[2] * c[3]
    IN  <<IF c[1] < 0 THEN -k ELSE k, 100>>

(* mutant of derived_for: the test `len(aligned) < 10` is dropped *)
derived_for_any_size(df, num, a, b, corr_threshold) ==
    IF ~is_datetime64_any_dtype(df, a) \/ ~is_datetime64_any_dtype(df, b) THEN <<>>
    ELSE LET c == corr_parts(df, num, a, b)
         IN  IF corr_notnull(c) /\ corr_at_least(c, corr_threshold)
             THEN <<[field |-> num,
                     derived_from |-> b \o " - " \o a,
                     corr |-> corr_round2(c)]>>
             ELSE <<>>

derived_for(df, num, a, b, corr_threshold) ==
    IF ~is_datetime64_any_dtype(df, a) \/ ~is_datetime64_any_dtype(df, b) THEN <<>>
    ELSE IF Len(aligned_rows(df, num, a, b)) < min_aligned_rows THEN <<>>
    ELSE LET c == corr_parts(df, num, a, b)
         IN  IF corr_notnull(c) /\ corr_at_least(c, corr_threshold)
             THEN <<[field |-> num,
                     derived_from |-> b \o " - " \o a,
                     corr |-> corr_round2(c)]>>
             ELSE <<>>

detect_derived_fields(df, corr_threshold) ==
    LET date_cols == temporal_cols(df)
        nums == SelectSeq(numeric_cols(df), LAMBDA c : ~isnull_all(Series(df, c)))
    IN  IF Len(date_cols) < 2 THEN <<>>
        ELSE Concat([m \in DOMAIN nums |->
                 Concat([i \in DOMAIN date_cols |->
                     Concat([j \in DOMAIN date_cols |->
                         IF j > i
                         THEN derived_for(df, nums[m], date_cols[i], date_cols[j],
                                          corr_threshold)
                         ELSE <<>>])])])

----------------------------------------------------------------------------
(* Implicit foreign keys.  tables_dfs is the dict of loaded frames, as the *)
(* sequence of its items [name |-> ..., df |-> ...] in insertion order.    *)

min_overlap_ratio_default == <<5, 10>>

(* Python values of different kinds never compare equal *)
value_kind(dtype) ==
    IF dtype = "object" THEN "str"
    ELSE IF dtype = "datetime64[ns]" THEN "datetime"
    ELSE "number"

value_set(df, col) == {c[1] : c \in Range(Series(df, col)) \ {NaN}}

overlap(df_from, col, df_to, pk) ==
    IF value_kind(Dtype(df_from, col)) = value_kind(Dtype(df_to, pk))
    THEN value_set(df_from, col) \cap value_set(df_to, pk)
    ELSE {}

overlap_ratio(df_from, col, df_to, pk) ==
    <<Cardinality(overlap(df_from, col, df_to, pk)),
      Min(Cardinality(value_set(df_from, col)), Cardinality(value_set(df_to, pk)))>>

(* mutant of already_mapped: the explicit relationships are not consulted *)
never_mapped(existing_rels, tbl_from, col) == FALSE

already_mapped(existing_rels, tbl_from, col) ==
    \E r \in DOMAIN existing_rels :
        existing_rels[r].from_table = tbl_from /\ existing_rels[r].fk = col

(* the (tbl_to, pk) pairs the two inner loops visit, in order, with their ratio *)
pk_candidates(tables_dfs, tbl_from, df_from, col) ==
    Concat([t \in DOMAIN tables_dfs |->
        IF tables_dfs[t].name = tbl_from THEN <<>>
        ELSE LET df_to == tables_dfs[t].df
                 pks == SelectSeq(find_primary_keys(df_to),
                                  LAMBDA pk : value_set(df_to, pk) # {})
             IN  [k \in DOMAIN pks |->
                     [to_table |-> tables_dfs[t].name, pk |-> pks[k],
                      ratio |-> overlap_ratio(df_from, col, df_to, pks[k])]]])

NoMatch == [to_table |-> "", pk |-> "", ratio |-> Zero]

(* mutant of better: `ratio >= best_ratio`, so a later equal ratio wins *)
better_or_equal(ratio, best_ratio) == RatioLE(best_ratio, ratio)

better(ratio, best_ratio) == RatioLT(best_ratio, ratio)

RECURSIVE best_match(_, _)
best_match(cands, best) ==
    IF cands = <<>> THEN best
    ELSE best_match(Tail(cands),
                    IF better(Head(cands).ratio, best.ratio) THEN Head(cands) ELSE best)

(* mutant of accepts: the threshold itself is not accepted *)
accepts_above(best, min_overlap_ratio) ==
    best # NoMatch /\ RatioLT(min_overlap_ratio, best.ratio)

accepts(best, min_overlap_ratio) ==
    best # NoMatch /\ RatioLE(min_overlap_ratio, best.ratio)

suggestions_for(tables_dfs, existing_rels, min_overlap_ratio, tbl_from, df_from, col) ==
    IF already_mapped(existing_rels, tbl_from, col) THEN <<>>
    ELSE IF value_set(df_from, col) = {} THEN <<>>
    ELSE LET best == best_match(pk_candidates(tables_dfs, tbl_from, df_from, col), NoMatch)
         IN  IF accepts(best, min_overlap_ratio)
             THEN <<[from_table |-> tbl_from, fk |-> col,
                     to_table |-> best.to_table, pk |-> best.pk,
                     confidence |-> round2(best.ratio)]>>
             ELSE <<>>

infer_implicit_fks(tables_dfs, existing_rels, min_overlap_ratio) ==
    Concat([t \in DOMAIN tables_dfs |->
        LET df_from == tables_dfs[t].df
            fk_cols == SelectSeq(df_from.columns, LAMBDA c : endswith(c, "_id"))
        IN  Concat([k \in DOMAIN fk_cols |->
                suggestions_for(tables_dfs, existing_rels, min_overlap_ratio,
                                tables_dfs[t].name, df_from, fk_cols[k])])])

----------------------------------------------------------------------------
(* run_analysis.  An input file is a record                                *)
(*   [fname, ftype, raises, df, sql_pks, sql_fks]:                         *)
(* raises tells that reading it throws; df is the frame the reader returns *)
(* for a csv or excel file; sql_pks and sql_fks are what the two regular   *)
(* expressions extract from the text of a sql file.                        *)

NoFrame == [columns |-> <<>>, dtypes |-> <<>>, data |-> <<>>, n |-> 0]

(* outside the main block: no key, nothing typed *)
NoEnv == [OPENAI_API_KEY |-> "", stdin |-> "", api |-> "raises"]

NoResult == [tables |-> <<>>, relationships |-> <<>>, implicit_relationships |-> <<>>]

(* mutant of NewAnalysis: the dict is created once and kept between calls *)
KeptAnalysis == analysis

NewAnalysis == [tables |-> <<>>, relationships |-> <<>>, implicit_relationships |-> <<>>]

dead_columns(df) == SelectSeq(df.columns, LAMBDA c : detect_dead_column(Series(df, c)))

frame_entry(file, ties) ==
    [fname |-> file.fname,
     pks |-> find_primary_keys(file.df),
     fks |-> find_foreign_keys(file.df),
     business |-> find_business_fields(file.df),
     stats |-> column_stats(file.df),
     temporal_rules |-> detect_temporal_rules(file.df),
     has_df |-> TRUE,
     df |-> file.df,
     multivariate_rules |->
         detect_multivariate_rules(file.df, max_cardinality_default, max_violation_default),
     derived_fields |-> detect_derived_fields(file.df, corr_threshold_default),
     dead_columns |-> dead_columns(file.df),
     dimension_candidates |->
         detect_dimension_candidates(file.df, max_cardinality_pct_default),
     workflow |-> detect_workflow(file.df, "updated_at", ties)]

sql_entry(file) ==
    [fname |-> file.fname,
     pks |-> file.sql_pks,
     fks |-> file.sql_fks,
     business |-> <<>>,
     stats |-> <<>>,
     temporal_rules |-> {},
     has_df |-> FALSE,
     df |-> NoFrame,
     multivariate_rules |-> <<>>,
     derived_fields |-> <<>>,
     dead_columns |-> <<>>,
     dimension_candidates |-> <<>>,
     workflow |-> NoWorkflow]

(* analysis['tables'][fname] = {...}: INPUT_FILES is a dict, so every fname *)
(* is stored once and the entries keep the order of the files              *)
store_entry(tables, entry) == Append(tables, entry)

explicit_relationships(tables) ==
    Concat([f \in DOMAIN tables |->
        Concat([k \in DOMAIN tables[f].fks |->
            Concat([t \in DOMAIN tables |->
                IF tables[f].fks[k] \in Range(tables[t].pks)
                       /\ tables[f].fname # tables[t].fname
                THEN <<[from_table |-> tables[f].fname, fk |-> tables[f].fks[k],
                        to_table |-> tables[t].fname, pk |-> tables[f].fks[k]]>>
                ELSE <<>>])])])

tables_dfs_of(tables) ==
    LET loaded == SelectSeq(tables, LAMBDA info : info.has_df)
    IN  [k \in DOMAIN loaded |-> [name |-> loaded[k].fname, df |-> loaded[k].df]]

Start ==
    /\ pc = "start"
    /\ analysis' = NewAnalysis
    /\ idx' = 1
    /\ pc' = "files"
    /\ UNCHANGED <<INPUT_FILES, run, first, sort_ties, args, ret, env, reports, stdout>>

(* the reader throws: `continue`, nothing is recorded *)
ReadFails ==
    /\ pc = "files"
    /\ idx <= Len(INPUT_FILES)
    /\ INPUT_FILES[idx].raises
    /\ idx' = idx + 1
    /\ UNCHANGED <<INPUT_FILES, pc, analysis, run, first, sort_ties, args, ret, env, reports, stdout>>

AnalyzeFrame ==
    /\ pc = "files"
    /\ idx <= Len(INPUT_FILES)
    /\ ~INPUT_FILES[idx].raises
    /\ INPUT_FILES[idx].ftype \in {"csv", "excel"}
    /\ frame_entry(INPUT_FILES[idx], sort_ties).workflow.kind # "ValueError"
    /\ analysis' = [analysis EXCEPT
                       !.tables = store_entry(@, frame_entry(INPUT_FILES[idx], sort_ties))]
    /\ idx' = idx + 1
    /\ UNCHANGED <<INPUT_FILES, pc, run, first, sort_ties, args, ret, env, reports, stdout>>

(* detect_workflow raises and nothing in run_analysis catches it *)
AnalyzeRaises ==
    /\ pc = "files"
    /\ idx <= Len(INPUT_FILES)
    /\ ~INPUT_FILES[idx].raises
    /\ INPUT_FILES[idx].ftype \in {"csv", "excel"}
    /\ frame_entry(INPUT_FILES[idx], sort_ties).workflow.kind = "ValueError"
    /\ pc' = "raised"
    /\ UNCHANGED <<INPUT_FILES, idx, analysis, run, first, sort_ties, args, ret, env, reports, stdout>>

AnalyzeSql ==
    /\ pc = "files"
    /\ idx <= Len(INPUT_FILES)
    /\ ~INPUT_FILES[idx].raises
    /\ INPUT_FILES[idx].ftype = "sql"
    /\ analysis' = [analysis EXCEPT !.tables = store_entry(@, sql_entry(INPUT_FILES[idx]))]
    /\ idx' = idx + 1
    /\ UNCHANGED <<INPUT_FILES, pc, run, first, sort_ties, args, ret, env, reports, stdout>>

ResolveExplicit ==
    /\ pc = "files"
    /\ idx > Len(INPUT_FILES)
    /\ analysis' = [analysis EXCEPT
                       !.relationships = @ \o explicit_relationships(analysis.tables)]
    /\ pc' = "implicit"
    /\ UNCHANGED <<INPUT_FILES, idx, run, first, sort_ties, args, ret, env, reports, stdout>>

InferImplicit ==
    /\ pc = "implicit"
    /\ analysis' = [analysis EXCEPT
                       !.implicit_relationships =
                           infer_implicit_fks(tables_dfs_of(analysis.tables),
                                              analysis.relationships,
                                              min_overlap_ratio_default)]
    /\ pc' = "return"
    /\ UNCHANGED <<INPUT_FILES, idx, run, first, sort_ties, args, ret, env, reports, stdout>>

(* run_analysis returns; the caller keeps the result and calls it again *)
Return ==
    /\ pc = "return"
    /\ IF run = 1
       THEN /\ first' = analysis
            /\ run' = 2
            /\ pc' = "start"
       ELSE /\ pc' = "done"
            /\ UNCHANGED <<first, run>>
    /\ UNCHANGED <<INPUT_FILES, idx, analysis, sort_ties, args, ret, env, reports, stdout>>

----------------------------------------------------------------------------
(* Input frames.  pd.read_csv infers the dtype of a column from its cells: *)
(* no rows give object, whole numbers int64, numbers with a missing value  *)
(* (or nothing but missing values) float64, text object; read_excel gives  *)
(* date cells datetime64[ns].                                              *)

read_dtype(kind, series) ==
    IF Len(series) = 0 THEN "object"
    ELSE IF isnull_all(series) THEN "float64"
    ELSE IF kind = "str" THEN "object"
    ELSE IF kind = "datetime" THEN "datetime64[ns]"
    ELSE IF isnull_any(series) THEN "float64"
    ELSE "int64"

Frame(columns, kinds, data) ==
    [columns |-> columns,
     dtypes |-> [i \in DOMAIN columns |-> read_dtype(kinds[i], data[i])],
     data |-> data,
     n |-> Len(data[1])]

Frames1(columns, kinds, c1, n) ==
    {Frame(columns, kinds, <<s1>>) : s1 \in [1..n -> c1]}

Frames2(columns, kinds, c1, c2, n) ==
    {Frame(columns, kinds, <<s1, s2>>) : s1 \in [1..n -> c1], s2 \in [1..n -> c2]}

CsvFile(fname, df) ==
    [fname |-> fname, ftype |-> "csv", raises |-> FALSE, df |-> df,
     sql_pks |-> <<>>, sql_fks |-> <<>>]

UnreadableFile(fname, ftype) ==
    [fname |-> fname, ftype |-> ftype, raises |-> TRUE, df |-> NoFrame,
     sql_pks |-> <<>>, sql_fks |-> <<>>]

SqlFile(fname, pks, fks) ==
    [fname |-> fname, ftype |-> "sql", raises |-> FALSE, df |-> NoFrame,
     sql_pks |-> pks, sql_fks |-> fks]

MaxRows == 2

Cells == {NaN, <<1>>, <<2>>}

(* one table with a key-like column and an attribute *)
KeyFrames == UNION {Frames2(<<"id", "type">>, <<"int", "int">>, Cells, Cells, n) : n \in 0..MaxRows}

(* a table with an FK-name column, and a table whose column has the same   *)
(* name or another one                                                     *)
FromFrames == UNION {Frames1(<<"order_id">>, <<"int">>, Cells, n) : n \in 0..MaxRows}

ToFrames ==
    UNION {Frames1(<<c>>, <<"int">>, Cells, n) : c \in {"order_id", "id"}, n \in 0..MaxRows}

open == <<"open">>

closed == <<"closed">>

(* status histories: with and without the entity column, with a missing cell *)
HistoryFrames ==
    {Frame(<<"invoice_id", "status", "updated_at">>, <<"int", "str", "datetime">>,
           <<<< <<1>>, <<1>> >>, <<open, closed>>, << <<1>>, <<2>> >> >>),
     Frame(<<"invoice_id", "status", "updated_at">>, <<"int", "str", "datetime">>,
           <<<< <<1>>, <<1>>, <<2>> >>, <<closed, open, open>>, << <<2>>, <<1>>, NaN >> >>),
     Frame(<<"status", "updated_at">>, <<"str", "datetime">>,
           <<<<open, closed>>, << <<1>>, <<2>> >> >>),
     Frame(<<"status", "updated_at">>, <<"str", "datetime">>,
           <<<<open, closed, NaN>>, << <<1>>, <<2>>, <<3>> >> >>),
     Frame(<<"status", "created_at">>, <<"str", "datetime">>,
           <<<<open, closed>>, << <<1>>, <<2>> >> >>)}

SmallFrames == UNION {Frames1(<<"id">>, <<"int">>, Cells, n) : n \in 0..1}

(* three tables that all have the column order_id *)
OrderFrames == UNION {Frames1(<<"order_id">>, <<"int">>, Cells, n) : n \in 0..1}

InputFileSets ==
    {<<CsvFile("a.csv", f)>> : f \in KeyFrames \cup HistoryFrames}
    \cup {<<CsvFile("a.csv", f), CsvFile("b.csv", g)>> : f \in FromFrames, g \in ToFrames}
    \cup {<<UnreadableFile("a.csv", "csv"), CsvFile("b.csv", g)>> : g \in SmallFrames}
    \cup {<<CsvFile("a.csv", f), UnreadableFile("b.xlsx", "excel")>> : f \in SmallFrames}
    \cup {<<CsvFile("a.csv", f), SqlFile("c.sql", pks, <<"id">>)>> :
             f \in FromFrames, pks \in {<<>>, <<"order_id">>}}
    \cup {<<CsvFile("a.csv", f), CsvFile("b.csv", g), CsvFile("c.csv", h)>> :
             f \in OrderFrames, g \in OrderFrames, h \in OrderFrames}

Init ==
    /\ INPUT_FILES \in InputFileSets
    /\ sort_ties \in {"first", "last"}
    /\ pc = "start"
    /\ idx = 1
    /\ analysis = NoResult
    /\ run = 1
    /\ first = NoResult
    /\ env = NoEnv
    /\ reports = <<>>
    /\ stdout = <<>>
    /\ args = None
    /\ ret = None

Next ==
    \/ Start
    \/ ReadFails
    \/ AnalyzeFrame
    \/ AnalyzeRaises
    \/ AnalyzeSql
    \/ ResolveExplicit
    \/ InferImplicit
    \/ Return

Spec == Init /\ [][Next]_vars

----------------------------------------------------------------------------
(* Properties of run_analysis, checked under Spec *)

Returned == pc \in {"return", "done"}

LoadedEntries == {analysis.tables[k] : k \in {k \in DOMAIN analysis.tables : analysis.tables[k].has_df}}

Rels(seq) == Range(seq)

(* C2: every primary-key candidate is fully non-null and all-distinct in a *)
(* table of at least one row; a table of 0 rows has no candidate.          *)
C2_PrimaryKeysNonNullDistinct ==
    \A e \in LoadedEntries :
        /\ e.df.n = 0 => e.pks = <<>>
        /\ \A c \in Range(e.pks) :
               /\ e.df.n >= 1
               /\ \A i \in 1..e.df.n : Series(e.df, c)[i] # NaN
               /\ \A i, j \in 1..e.df.n : i # j => Series(e.df, c)[i] # Series(e.df, c)[j]

(* C3: no column flagged dead is among the primary-key candidates of its   *)
(* table, whatever the row count.                                          *)
C3_DeadColumnNeverPrimaryKey ==
    \A e \in LoadedEntries : Range(e.dead_columns) \cap Range(e.pks) = {}

(* C4: no implicit relationship repeats the (from_table, fk) of an         *)
(* explicit relationship.                                                  *)
C4_ImplicitOnlyWithoutExplicit ==
    Returned =>
        \A imp \in Rels(analysis.implicit_relationships) :
            \A rel \in Rels(analysis.relationships) :
                ~(imp.from_table = rel.from_table /\ imp.fk = rel.fk)

(* C4 witness: a run has returned in which an explicitly matched FK column *)
(* would have been suggested by the overlap search had it not been skipped *)
C4_Witness ==
    /\ pc = "done"
    /\ \E rel \in Rels(analysis.relationships) :
           \E imp \in Rels(infer_implicit_fks(tables_dfs_of(analysis.tables), <<>>,
                                              min_overlap_ratio_default)) :
               imp.from_table = rel.from_table /\ imp.fk = rel.fk

(* C8: on a table of 0 rows every per-table miner returns an empty result  *)
(* and none raises.                                                        *)
C8_EmptyTableEmptyResults ==
    /\ \A e \in LoadedEntries :
           e.df.n = 0 =>
               /\ e.pks = <<>>
               /\ e.business = <<>>
               /\ e.multivariate_rules = <<>>
               /\ e.derived_fields = <<>>
               /\ e.dimension_candidates = <<>>
               /\ e.workflow.kind = "empty"
    /\ pc = "raised" => INPUT_FILES[idx].df.n # 0

EmptyEntry(e) ==
    /\ e.pks = <<>> /\ e.fks = <<>> /\ e.business = <<>> /\ e.stats = <<>>
    /\ e.temporal_rules = {} /\ e.multivariate_rules = <<>> /\ e.derived_fields = <<>>
    /\ e.dead_columns = <<>> /\ e.dimension_candidates = <<>>
    /\ e.workflow.kind = "empty"

(* C9: when reading one file raises, the other tables are still analysed   *)
(* and the result holds an entry, all empty, for the file that failed.     *)
C9_FailedTableRecordedEmpty ==
    Returned =>
        \A i \in DOMAIN INPUT_FILES :
            \E e \in Range(analysis.tables) :
                /\ e.fname = INPUT_FILES[i].fname
                /\ INPUT_FILES[i].raises => EmptyEntry(e)

InUnitInterval(r) == r[2] > 0 /\ 0 <= r[1] /\ r[1] <= r[2]

IsZero(r) == r[2] > 0 /\ r[1] = 0

(* C11: for every table and every column, the null_pct and unique_pct of   *)
(* the column profile lie in [0, 1], and both are 0 when the table has 0   *)
(* rows.                                                                   *)
C11_ProfileRatiosInUnitInterval ==
    \A e \in LoadedEntries :
        /\ Len(e.stats) = Len(e.df.columns)
        /\ \A i \in DOMAIN e.stats :
               /\ InUnitInterval(e.stats[i].null_pct)
               /\ InUnitInterval(e.stats[i].unique_pct)
               /\ e.df.n = 0 => IsZero(e.stats[i].null_pct) /\ IsZero(e.stats[i].unique_pct)

(* C11 witness: one run profiled a table of 0 rows and a table in which a  *)
(* column is partly null                                                   *)
C11_Witness ==
    /\ pc = "done"
    /\ \E e \in LoadedEntries : e.df.n = 0 /\ e.stats # <<>>
    /\ \E e \in LoadedEntries :
           \E i \in DOMAIN e.stats :
               /\ 0 < e.stats[i].null_pct[1]
               /\ e.stats[i].null_pct[1] < e.stats[i].null_pct[2]
               /\ e.stats[i].unique_pct[1] = 1

(* C14: the result holds at most one explicit relationship for every       *)
(* (from_table, fk) pair, also when the FK name is a primary-key candidate *)
(* of more than one other table, and no explicit relationship leads from a *)
(* table to itself.                                                        *)
C14_AtMostOneExplicitPerFk ==
    Returned =>
        /\ \A i, j \in DOMAIN analysis.relationships :
               (/\ analysis.relationships[i].from_table = analysis.relationships[j].from_table
                /\ analysis.relationships[i].fk = analysis.relationships[j].fk) => i = j
        /\ \A i \in DOMAIN analysis.relationships :
               analysis.relationships[i].from_table # analysis.relationships[i].to_table

----------------------------------------------------------------------------
(* detect_workflow called on its own, on status histories *)

MaxEvents == 3

StatusCells == {open, closed, NaN}

TimeCells == {<<1>>, <<2>>, NaN}

EntityCells == {<<1>>, <<2>>}

HistoryWithEntity(s1, s2, s3) ==
    Frame(<<"invoice_id", "status", "updated_at">>, <<"int", "str", "datetime">>,
          <<s1, s2, s3>>)

HistoryWithoutEntity(s2, s3) ==
    Frame(<<"status", "updated_at">>, <<"str", "datetime">>, <<s2, s3>>)

InitWorkflow ==
    /\ \E n \in 0..MaxEvents :
           \E s2 \in [1..n -> StatusCells], s3 \in [1..n -> TimeCells] :
               \/ \E s1 \in [1..n -> EntityCells] :
                      args = [df |-> HistoryWithEntity(s1, s2, s3),
                              timestamp_col |-> "updated_at"]
               \/ args = [df |-> HistoryWithoutEntity(s2, s3),
                          timestamp_col |-> "updated_at"]
               \/ \E s1 \in [1..n -> EntityCells] :
                      args = [df |-> Frame(<<"invoice_id", "status">>, <<"int", "str">>,
                                           <<s1, s2>>),
                              timestamp_col |-> "updated_at"]
    /\ sort_ties \in {"first", "last"}
    /\ pc = "call"
    /\ ret = None
    /\ INPUT_FILES = <<>>
    /\ idx = 1
    /\ analysis = NoResult
    /\ run = 1
    /\ first = NoResult
    /\ env = NoEnv
    /\ reports = <<>>
    /\ stdout = <<>>

CallDetectWorkflow ==
    /\ pc = "call"
    /\ ret' = detect_workflow(args.df, args.timestamp_col, sort_ties)
    /\ pc' = "returned"
    /\ UNCHANGED <<INPUT_FILES, idx, analysis, run, first, sort_ties, args, env, reports, stdout>>

NextWorkflow == CallDetectWorkflow

SpecWorkflow == InitWorkflow /\ [][NextWorkflow]_vars

(* rows i and j belong to the same entity: the same invoice_id, or, without *)
(* that column, the same row                                                *)
SameEntity(df, i, j) ==
    IF HasCol(df, "invoice_id")
    THEN Series(df, "invoice_id")[i] = Series(df, "invoice_id")[j]
    ELSE i = j

(* row j is the next event of row i's entity in time order *)
NextEvent(df, i, j) ==
    LET kept == kept_rows(df, "status", "updated_at")
        before(a, b) == row_before(df, "updated_at", sort_ties, a, b)
    IN  /\ i \in kept /\ j \in kept /\ i # j
        /\ SameEntity(df, i, j)
        /\ before(i, j)
        /\ ~\E k \in kept \ {i, j} : SameEntity(df, i, k) /\ before(i, k) /\ before(k, j)

StatusChanges(df) ==
    {<<Series(df, "status")[p[1]][1], Series(df, "status")[p[2]][1]>> :
        p \in {p \in (1..df.n) \X (1..df.n) :
                  /\ NextEvent(df, p[1], p[2])
                  /\ Series(df, "status")[p[1]] # Series(df, "status")[p[2]]}}

(* all rows are events of one entity, whose time-ordered statuses are open, closed *)
OneEntityOpenThenClosed(df) ==
    /\ HasCol(df, "invoice_id")
    /\ HasCol(df, "updated_at")
    /\ df.n = 2
    /\ \A i, j \in 1..df.n : SameEntity(df, i, j)
    /\ \E i, j \in 1..df.n :
           /\ NextEvent(df, i, j)
           /\ Series(df, "status")[i] = open
           /\ Series(df, "status")[j] = closed

(* C1: the transitions detect_workflow returns are the adjacent pairs of   *)
(* differing statuses of each entity's time-ordered status sequence; two   *)
(* rows of one entity going open then closed give exactly (open, closed).  *)
C1_TransitionsAreAdjacentChanges ==
    (pc = "returned" /\ ret.kind = "workflow"
        /\ timestamp_usable(args.df, "updated_at")) =>
            /\ ret.status_col = "status"
            /\ ret.transitions = StatusChanges(args.df)
            /\ OneEntityOpenThenClosed(args.df) =>
                   ret.transitions = {<<"open", "closed">>}

(* C1 witness: the two events of one entity are stored latest first and    *)
(* the call returned the single transition open -> closed                  *)
C1_Witness ==
    /\ pc = "returned"
    /\ OneEntityOpenThenClosed(args.df)
    /\ Series(args.df, "status")[1] = closed
    /\ ret.kind = "workflow"
    /\ ret.transitions = {<<"open", "closed">>}

(* the table has a status column with more than one distinct value *)
HasQualifyingStatus(df) ==
    Cardinality(Range(Series(df, "status")) \ {NaN}) > 1

TimestampAbsent(df) == \A c \in DOMAIN df.columns : df.columns[c] # "updated_at"

TimestampAllNull(df) ==
    /\ ~TimestampAbsent(df)
    /\ \A i \in 1..df.n : Series(df, "updated_at")[i] = NaN

(* C16: with a qualifying status column and a timestamp column that is     *)
(* absent or fully null, detect_workflow returns the sorted distinct       *)
(* non-null statuses as states and an empty transition set.                *)
C16_StatesOnlyWithoutTimestamp ==
    (/\ pc = "returned"
     /\ HasQualifyingStatus(args.df)
     /\ TimestampAbsent(args.df) \/ TimestampAllNull(args.df)) =>
        /\ ret.kind = "workflow"
        /\ ret.status_col = "status"
        /\ ret.states = <<"closed", "open">>
        /\ ret.transitions = {}

(* C16 witness: statuses open then closed of one entity, every timestamp   *)
(* missing, and the call returned                                          *)
C16_Witness ==
    /\ pc = "returned"
    /\ args.df.n = 2
    /\ TimestampAllNull(args.df)
    /\ Series(args.df, "status") = <<open, closed>>
    /\ ~HasCol(args.df, "invoice_id")
    /\ ret.states = <<"closed", "open">>

(* C17: without the invoice_id column detect_workflow returns an empty     *)
(* transition set for every input, whatever the statuses and timestamps.   *)
C17_NoEntityColumnNoTransitions ==
    (pc = "returned" /\ ~HasCol(args.df, "invoice_id")) =>
        /\ ret.kind \in {"empty", "workflow"}
        /\ ret.transitions = {}

----------------------------------------------------------------------------
(* infer_implicit_fks called on its own: table a.csv with the FK-name      *)
(* column order_id, table b.csv with column id, and possibly a third table *)
(* c.csv with column key; with and without an explicit relationship for    *)
(* a.csv.order_id; under several values of min_overlap_ratio.              *)

LargeRows == 201

Run(lo, hi) == [i \in 1..(hi - lo + 1) |-> <<lo + i - 1>>]

SmallColumns == UNION {[1..n -> Cells] : n \in 0..MaxRows}

IdColumns ==
    SmallColumns
    \cup {Run(1, 3), Run(1, 4), Run(3, 5), Run(1, LargeRows), Run(LargeRows, 2 * LargeRows)}

ThirdColumns == {Run(1, 2), Run(2, 3), <<<<3>>, <<9>>>>}

OneColumn(name, series) == Frame(<<name>>, <<"int">>, <<series>>)

InitImplicit ==
    /\ \E s1 \in IdColumns, s2 \in IdColumns :
       \E rels \in {<<>>, <<[from_table |-> "a.csv", fk |-> "order_id",
                             to_table |-> "x.sql", pk |-> "order_id"]>>} :
       \E ratio \in {<<0, 1>>, <<1, 1000>>, min_overlap_ratio_default} :
           \/ args = [tables_dfs |-> <<[name |-> "a.csv", df |-> OneColumn("order_id", s1)],
                                       [name |-> "b.csv", df |-> OneColumn("id", s2)]>>,
                      existing_rels |-> rels,
                      min_overlap_ratio |-> ratio]
           \/ \E s3 \in ThirdColumns :
                  args = [tables_dfs |->
                              <<[name |-> "a.csv", df |-> OneColumn("order_id", s1)],
                                [name |-> "b.csv", df |-> OneColumn("id", s2)],
                                [name |-> "c.csv", df |-> OneColumn("key", s3)]>>,
                          existing_rels |-> rels,
                          min_overlap_ratio |-> ratio]
           \/ \E s3 \in ThirdColumns, s4 \in ThirdColumns :
                  args = [tables_dfs |->
                              <<[name |-> "a.csv", df |-> OneColumn("order_id", s1)],
                                [name |-> "b.csv",
                                 df |-> Frame(<<"id", "code">>, <<"int", "int">>,
                                              <<s3, s4>>)]>>,
                          existing_rels |-> rels,
                          min_overlap_ratio |-> ratio]
    /\ sort_ties = "first"
    /\ pc = "call"
    /\ ret = None
    /\ INPUT_FILES = <<>>
    /\ idx = 1
    /\ analysis = NoResult
    /\ run = 1
    /\ first = NoResult
    /\ env = NoEnv
    /\ reports = <<>>
    /\ stdout = <<>>

CallInferImplicitFks ==
    /\ pc = "call"
    /\ ret' = infer_implicit_fks(args.tables_dfs, args.existing_rels, args.min_overlap_ratio)
    /\ pc' = "returned"
    /\ UNCHANGED <<INPUT_FILES, idx, analysis, run, first, sort_ties, args, env, reports, stdout>>

NextImplicit == CallInferImplicitFks

SpecImplicit == InitImplicit /\ [][NextImplicit]_vars

(* the call at hand: FK-name column order_id of a.csv against the others *)
FkValues == {c[1] : c \in Range(args.tables_dfs[1].df.data[1]) \ {NaN}}

(* the (table, column) pairs the search visits for order_id of a.csv: the  *)
(* primary-key candidates with values of the other tables                  *)
Candidates ==
    {p \in (2..Len(args.tables_dfs)) \X (1..2) :
        /\ p[2] \in DOMAIN args.tables_dfs[p[1]].df.columns
        /\ LET col == args.tables_dfs[p[1]].df.data[p[2]]
           IN  /\ col # <<>>
               /\ NaN \notin Range(col)
               /\ Cardinality(Range(col)) = Len(col)}

CandidateValues(p) == {c[1] : c \in Range(args.tables_dfs[p[1]].df.data[p[2]])}

CandidateRatio(p) ==
    <<Cardinality(FkValues \cap CandidateValues(p)),
      Min(Cardinality(FkValues), Cardinality(CandidateValues(p)))>>

(* p comes before q in the order of the tables and then of the columns *)
VisitedBefore(p, q) == p[1] < q[1] \/ (p[1] = q[1] /\ p[2] < q[2])

Maximal(p) ==
    p \in Candidates /\ \A q \in Candidates : RatioLE(CandidateRatio(q), CandidateRatio(p))

FirstMaximal(p) ==
    Maximal(p) /\ \A q \in Candidates : Maximal(q) /\ q # p => VisitedBefore(p, q)

Names(s, p) ==
    /\ s.to_table = args.tables_dfs[p[1]].name
    /\ s.pk = args.tables_dfs[p[1]].df.columns[p[2]]

Unmatched == args.existing_rels = <<>> /\ FkValues # {}

SameNumber(a, b) == a[1] * b[2] = b[1] * a[2]

(* c is x to the nearest hundredth *)
NearestHundredth(c, x) ==
    /\ c[2] = 100
    /\ 2 * (100 * x[1] - c[1] * x[2]) <= x[2]
    /\ 2 * (c[1] * x[2] - 100 * x[1]) <= x[2]

SpecExample ==
    /\ args.tables_dfs = <<[name |-> "a.csv", df |-> OneColumn("order_id", Run(1, 3))],
                           [name |-> "b.csv", df |-> OneColumn("id", Run(1, 4))]>>
    /\ args.existing_rels = <<>>
    /\ args.min_overlap_ratio = min_overlap_ratio_default

SpecExampleResult ==
    ret = <<[from_table |-> "a.csv", fk |-> "order_id", to_table |-> "b.csv",
             pk |-> "id", confidence |-> <<100, 100>>]>>

(* C5: every suggestion has a confidence greater than 0 and at most 1,     *)
(* whatever min_overlap_ratio is.                                          *)
C5_ConfidenceInUnitInterval ==
    pc = "returned" =>
        \A k \in DOMAIN ret :
            /\ ret[k].confidence[1] > 0
            /\ ret[k].confidence[1] <= ret[k].confidence[2]

(* C6: an unmatched FK-name column with values gets a suggestion iff its   *)
(* best overlap ratio over the primary-key candidates of the other tables  *)
(* is at least min_overlap_ratio, and the confidence is that ratio; the    *)
(* example of the specification gives a.order_id -> b.id with 1.0.         *)
C6_SuggestionIffBestRatioReaches ==
    (pc = "returned" /\ Unmatched) =>
        /\ ret # <<>> <=>
               \E p \in Candidates : RatioLE(args.min_overlap_ratio, CandidateRatio(p))
        /\ \A k \in DOMAIN ret :
               \E p \in Candidates :
                   Maximal(p) /\ SameNumber(ret[k].confidence, CandidateRatio(p))
        /\ SpecExample => SpecExampleResult

(* C6 as amended: the suggestion is made iff the best overlap ratio is     *)
(* greater than 0 and at least min_overlap_ratio; it names a candidate of  *)
(* best ratio and its confidence is that ratio rounded to 2 decimals.      *)
C6_SuggestionIffPositiveBestRatioReaches ==
    (pc = "returned" /\ Unmatched) =>
        /\ ret # <<>> <=>
               \E p \in Candidates :
                   /\ CandidateRatio(p)[1] > 0
                   /\ RatioLE(args.min_overlap_ratio, CandidateRatio(p))
        /\ Len(ret) <= 1
        /\ \A k \in DOMAIN ret :
               \E p \in Candidates :
                   /\ Maximal(p)
                   /\ ret[k].from_table = "a.csv" /\ ret[k].fk = "order_id"
                   /\ Names(ret[k], p)
                   /\ NearestHundredth(ret[k].confidence, CandidateRatio(p))
        /\ SpecExample => SpecExampleResult

(* C6 witness: the example of the specification was run and answered *)
C6_Witness == pc = "returned" /\ SpecExample /\ SpecExampleResult

(* C18: when several (table, PK column) candidates reach the same maximal  *)
(* overlap ratio, the suggestion names the first of them in the order of   *)
(* the tables and then of the columns, and at most one suggestion is       *)
(* emitted per (from_table, fk column).                                    *)
C18_FirstMaximalCandidateWins ==
    pc = "returned" =>
        /\ \A i, j \in DOMAIN ret :
               (ret[i].from_table = ret[j].from_table /\ ret[i].fk = ret[j].fk) => i = j
        /\ \A i \in DOMAIN ret :
               /\ ret[i].from_table = "a.csv" /\ ret[i].fk = "order_id"
               /\ \E p \in Candidates : FirstMaximal(p) /\ Names(ret[i], p)

(* C18 witness: two candidates tie at the maximal ratio and a suggestion   *)
(* was emitted                                                             *)
C18_Witness ==
    /\ pc = "returned"
    /\ Len(ret) = 1
    /\ \E p, q \in Candidates : p # q /\ Maximal(p) /\ Maximal(q)

----------------------------------------------------------------------------
(* detect_multivariate_rules called on its own, on a table with the        *)
(* columns type and email, with max_violation = 0.05                       *)

MaxContacts == 4

TypeCells == {<<"A">>, <<"B">>}

EmailCells == {NaN, <<"p">>, <<"q">>, <<"r">>}

InitMultivariate ==
    /\ \E n \in 0..MaxContacts :
       \E s1 \in [1..n -> TypeCells], s2 \in [1..n -> EmailCells] :
       \E card \in {2, max_cardinality_default} :
           args = [df |-> Frame(<<"type", "email">>, <<"str", "str">>, <<s1, s2>>),
                   max_cardinality |-> card,
                   max_violation |-> max_violation_default]
    /\ sort_ties = "first"
    /\ pc = "call"
    /\ ret = None
    /\ INPUT_FILES = <<>>
    /\ idx = 1
    /\ analysis = NoResult
    /\ run = 1
    /\ first = NoResult
    /\ env = NoEnv
    /\ reports = <<>>
    /\ stdout = <<>>

CallDetectMultivariateRules ==
    /\ pc = "call"
    /\ ret' = detect_multivariate_rules(args.df, args.max_cardinality, args.max_violation)
    /\ pc' = "returned"
    /\ UNCHANGED <<INPUT_FILES, idx, analysis, run, first, sort_ties, args, env, reports, stdout>>

NextMultivariate == CallDetectMultivariateRules

SpecMultivariate == InitMultivariate /\ [][NextMultivariate]_vars

RowsOfType(df, t) == {i \in 1..df.n : Series(df, "type")[i] = <<t>>}

NullEmails(df, t) == {i \in RowsOfType(df, t) : Series(df, "email")[i] = NaN}

(* type takes both values, every A row has an email, half of the B rows have none *)
TypeEmailCase(df) ==
    /\ RowsOfType(df, "A") # {}
    /\ RowsOfType(df, "B") # {}
    /\ NullEmails(df, "A") = {}
    /\ 2 * Cardinality(NullEmails(df, "B")) = Cardinality(RowsOfType(df, "B"))

RuleFor(t) ==
    {k \in DOMAIN ret :
        ret[k].condition = "type = " \o t /\ ret[k].requirement = "email != null"}

TypeEmailRules ==
    /\ \E k \in RuleFor("A") : ret[k].violation_pct[1] = 0
    /\ RuleFor("B") = {}

(* C7: in that case a rule "type = A requires email non-null" with 0 %     *)
(* violation is emitted and none for type = B, whatever the number of      *)
(* distinct values of email.                                               *)
C7_RuleForAOnly ==
    (pc = "returned" /\ TypeEmailCase(args.df)) => TypeEmailRules

(* C7 as amended: the same, provided email has more than max_cardinality   *)
(* distinct values, so that it is a target column.                         *)
C7_RuleForAOnlyWhenEmailIsTarget ==
    (pc = "returned" /\ TypeEmailCase(args.df)
        /\ Cardinality(Range(Series(args.df, "email")) \ {NaN}) > args.max_cardinality) =>
            /\ TypeEmailRules
            /\ Cardinality(RuleFor("A")) = 1

(* C7 witness: such a table, with email a target column, was mined *)
C7_Witness ==
    /\ pc = "returned"
    /\ TypeEmailCase(args.df)
    /\ Cardinality(Range(Series(args.df, "email")) \ {NaN}) > args.max_cardinality
    /\ Cardinality(RowsOfType(args.df, "A")) = 2
    /\ Len(ret) = 1

----------------------------------------------------------------------------
(* detect_derived_fields called on its own: a numeric column "days" and    *)
(* the two date columns "created_at" and "updated_at"                      *)

MaxSamples == 11

(* the value of a column in row i, by the shape of the column *)
Shape(shape, i) ==
    CASE shape = "step" -> i % 3
      [] shape = "down" -> 2 - (i % 3)
      [] shape = "flip" -> i % 2
      [] shape = "flat" -> 1

(* a date cell: a timestamp (its day number) or, read from csv, its text *)
DateCell(kind, day) == IF kind = "datetime" THEN <<day>> ELSE <<ToString(day)>>

DerivedFrame(n, ys, ds, ka, kb, ymiss, amiss, bmiss) ==
    Frame(<<"days", "created_at", "updated_at">>, <<"int", ka, kb>>,
          <<[i \in 1..n |-> IF i \in ymiss THEN NaN ELSE <<Shape(ys, i)>>],
            [i \in 1..n |-> IF i \in amiss THEN NaN ELSE DateCell(ka, 0)],
            [i \in 1..n |-> IF i \in bmiss THEN NaN ELSE DateCell(kb, Shape(ds, i))]>>)

InitDerived ==
    /\ \E n \in {5} \cup 9..MaxSamples :
       \E ys \in {"step", "down", "flip", "flat"}, ds \in {"step", "flip"} :
       \E ka \in {"datetime", "str"}, kb \in {"datetime", "str"} :
       \E ymiss \in {{}, {1}, {1, 2}}, amiss \in {{}, {3}}, bmiss \in {{}, {n}} :
       \E threshold \in {corr_threshold_default, <<1, 2>>} :
           args = [df |-> DerivedFrame(n, ys, ds, ka, kb, ymiss, amiss, bmiss),
                   corr_threshold |-> threshold]
    /\ sort_ties = "first"
    /\ pc = "call"
    /\ ret = None
    /\ INPUT_FILES = <<>>
    /\ idx = 1
    /\ analysis = NoResult
    /\ run = 1
    /\ first = NoResult
    /\ env = NoEnv
    /\ reports = <<>>
    /\ stdout = <<>>

CallDetectDerivedFields ==
    /\ pc = "call"
    /\ ret' = detect_derived_fields(args.df, args.corr_threshold)
    /\ pc' = "returned"
    /\ UNCHANGED <<INPUT_FILES, idx, analysis, run, first, sort_ties, args, env, reports, stdout>>

NextDerived == CallDetectDerivedFields

SpecDerived == InitDerived /\ [][NextDerived]_vars

(* the rows in which the number and both dates are present *)
PairedRows(df) ==
    {i \in 1..df.n : /\ Series(df, "days")[i] # NaN
                     /\ Series(df, "created_at")[i] # NaN
                     /\ Series(df, "updated_at")[i] # NaN}

TimestampTyped(df, col) == Dtype(df, col) = "datetime64[ns]"

(* C12: a derived-field suggestion is emitted for the number and the date  *)
(* pair only if both date columns are timestamp-typed and at least 10 rows *)
(* hold the number and both dates; a table of 5 rows gets no suggestion,   *)
(* whatever the correlation.                                               *)
C12_DerivedOnlyFromTenTimestampRows ==
    pc = "returned" =>
        /\ \A k \in DOMAIN ret :
               /\ ret[k].field = "days"
               /\ ret[k].derived_from = "updated_at - created_at"
               /\ TimestampTyped(args.df, "created_at")
               /\ TimestampTyped(args.df, "updated_at")
               /\ Cardinality(PairedRows(args.df)) >= 10
        /\ args.df.n = 5 => ret = <<>>

(* C12 witness: a suggestion was emitted from exactly 10 paired rows of a  *)
(* table that has more rows                                                *)
C12_Witness ==
    /\ pc = "returned"
    /\ Len(ret) = 1
    /\ Cardinality(PairedRows(args.df)) = 10
    /\ args.df.n > 10

----------------------------------------------------------------------------
(* The main block of main.py: run_analysis, the three primary reports, then *)
(* the refinement by the external model inside try/except.  A report is    *)
(* modelled by the data its sections render, not by its text; messages and *)
(* titles are written without their accents.                               *)

generate_markdown_report(a) ==
    [title |-> "# Relatorio Integrado de Analise Estrutural - SymSupply",
     keys |-> [k \in DOMAIN a.tables |->
                  [tbl |-> a.tables[k].fname, pks |-> a.tables[k].pks,
                   fks |-> a.tables[k].fks]],
     relationships |-> a.relationships,
     implicit |-> [k \in DOMAIN a.implicit_relationships |->
                      [from_table |-> a.implicit_relationships[k].from_table,
                       fk |-> a.implicit_relationships[k].fk,
                       to_table |-> a.implicit_relationships[k].to_table,
                       pk |-> a.implicit_relationships[k].pk]],
     dictionary |-> [k \in DOMAIN a.tables |->
                        [tbl |-> a.tables[k].fname, stats |-> a.tables[k].stats]]]

generate_rag_report(a) ==
    [title |-> "# Relatorio de Analise Estrutural - SymSupply",
     pks |-> [k \in DOMAIN a.tables |->
                 [tbl |-> a.tables[k].fname, pks |-> a.tables[k].pks]],
     fks |-> [k \in DOMAIN a.tables |->
                 [tbl |-> a.tables[k].fname,
                  fks |-> [j \in DOMAIN a.tables[k].fks |->
                              LET fk == a.tables[k].fks[j]
                                  rels == SelectSeq(a.relationships,
                                              LAMBDA r : /\ r.from_table = a.tables[k].fname
                                                         /\ r.fk = fk)
                              IN  [fk |-> fk,
                                   target |-> IF rels # <<>> THEN Head(rels).to_table
                                              ELSE "?"]]]],
     implicit |-> a.implicit_relationships]

generate_curadoria_report(a) ==
    [title |-> "# Relatorio de Curadoria de Dados - SymSupply",
     total_tables |-> Len(a.tables),
     total_rows |-> SumSeq([k \in DOMAIN a.tables |->
                               IF a.tables[k].has_df THEN a.tables[k].df.n ELSE 0]),
     total_columns |-> SumSeq([k \in DOMAIN a.tables |->
                                  IF a.tables[k].has_df
                                  THEN Len(a.tables[k].df.columns) ELSE 0]),
     pk_count |-> SumSeq([k \in DOMAIN a.tables |-> Len(a.tables[k].pks)]),
     fk_count |-> SumSeq([k \in DOMAIN a.tables |-> Len(a.tables[k].fks)]),
     implicit_fk_count |-> Len(a.implicit_relationships)]

(* mutant of write: the file is not written *)
write_nothing(dir, name, content) == dir

(* with open(os.path.join(REPORT_DIR, name), 'w') as f: f.write(content) *)
write(dir, name, content) == (name :> content) @@ dir

(* refine_with_gpt: the key it ends up with, from the variable or typed in *)
api_key_of(e) == IF e.OPENAI_API_KEY # "" THEN e.OPENAI_API_KEY ELSE e.stdin

(* input() raises EOFError when standard input is at its end *)
input_raises(e) == e.OPENAI_API_KEY = "" /\ e.stdin = "EOF"

(* response.choices[0].message.content: the text the model answers with *)
refined_text(markdown) == [model |-> "gpt-3.5-turbo", refined |-> markdown]

(* analysis = run_analysis(); os.makedirs(REPORT_DIR, exist_ok=True) *)
ReturnToMain ==
    /\ pc = "return"
    /\ pc' = "report_md"
    /\ UNCHANGED <<INPUT_FILES, idx, analysis, run, first, sort_ties, args, ret, env,
                   reports, stdout>>

WriteMarkdownReport ==
    /\ pc = "report_md"
    /\ reports' = write(reports, "relatorio_sym_supply.md", generate_markdown_report(analysis))
    /\ pc' = "rag_md"
    /\ UNCHANGED <<INPUT_FILES, idx, analysis, run, first, sort_ties, args, ret, env, stdout>>

WriteRagReport ==
    /\ pc = "rag_md"
    /\ reports' = write(reports, "relatorio_sym_supply_rag.md", generate_rag_report(analysis))
    /\ pc' = "cur_md"
    /\ UNCHANGED <<INPUT_FILES, idx, analysis, run, first, sort_ties, args, ret, env, stdout>>

WriteCuradoriaReport ==
    /\ pc = "cur_md"
    /\ reports' = write(reports, "relatorio_curadoria.md", generate_curadoria_report(analysis))
    /\ pc' = "refine"
    /\ UNCHANGED <<INPUT_FILES, idx, analysis, run, first, sort_ties, args, ret, env, stdout>>

(* no key in the environment and none typed: refine_with_gpt returns the   *)
(* markdown it was given, which is written as the refined report           *)
RefineSkipped ==
    /\ pc = "refine"
    /\ ~input_raises(env)
    /\ api_key_of(env) = ""
    /\ reports' = write(reports, "relatorio_sym_supply_gpt.md", generate_markdown_report(analysis))
    /\ stdout' = stdout \o <<"Chave da API nao fornecida. Pulando refinamento com GPT.",
                             "Pipeline executado com sucesso. Relatorios gerados.">>
    /\ pc' = "finished"
    /\ UNCHANGED <<INPUT_FILES, idx, analysis, run, first, sort_ties, args, ret, env>>

(* the model answers: its text is written as the refined report *)
RefineResponds ==
    /\ pc = "refine"
    /\ ~input_raises(env)
    /\ api_key_of(env) # ""
    /\ env.api = "responds"
    /\ reports' = write(reports, "relatorio_sym_supply_gpt.md",
                        refined_text(generate_markdown_report(analysis)))
    /\ stdout' = stdout \o <<"Pipeline executado com sucesso. Relatorios gerados.">>
    /\ pc' = "finished"
    /\ UNCHANGED <<INPUT_FILES, idx, analysis, run, first, sort_ties, args, ret, env>>

(* input() or the API call raises: `except Exception` prints the two lines *)
RefineRaises ==
    /\ pc = "refine"
    /\ input_raises(env) \/ (api_key_of(env) # "" /\ env.api = "raises")
    /\ stdout' = stdout \o <<"Erro ao refinar com GPT",
                             "Relatorio basico gerado em 'relatorio_sym_supply.md'.">>
    /\ pc' = "finished"
    /\ UNCHANGED <<INPUT_FILES, idx, analysis, run, first, sort_ties, args, ret, env,
                   reports>>

MainFileSets ==
    {<<CsvFile("a.csv", f)>> : f \in HistoryFrames}
    \cup {<<UnreadableFile("a.csv", "csv"), CsvFile("b.csv", g)>> : g \in SmallFrames}
    \cup {<<CsvFile("a.csv", f), CsvFile("b.csv", g)>> : f \in SmallFrames, g \in SmallFrames}
    \cup {<<CsvFile("a.csv", f), SqlFile("c.sql", <<"id">>, <<"id">>)>> : f \in SmallFrames}

InitMain ==
    /\ INPUT_FILES \in MainFileSets
    /\ sort_ties \in {"first", "last"}
    /\ \E key \in {"", "sk"}, typed \in {"", "sk", "EOF"}, api \in {"responds", "raises"} :
           env = [OPENAI_API_KEY |-> key, stdin |-> typed, api |-> api]
    /\ pc = "start"
    /\ idx = 1
    /\ analysis = NoResult
    /\ run = 1
    /\ first = NoResult
    /\ reports = <<>>
    /\ stdout = <<>>
    /\ args = None
    /\ ret = None

NextMain ==
    \/ Start
    \/ ReadFails
    \/ AnalyzeFrame
    \/ AnalyzeRaises
    \/ AnalyzeSql
    \/ ResolveExplicit
    \/ InferImplicit
    \/ ReturnToMain
    \/ WriteMarkdownReport
    \/ WriteRagReport
    \/ WriteCuradoriaReport
    \/ RefineSkipped
    \/ RefineResponds
    \/ RefineRaises

SpecMain == InitMain /\ [][NextMain]_vars

Written(name, content) == name \in DOMAIN reports /\ reports[name] = content

UnrefinedAvailable ==
    /\ Written("relatorio_sym_supply.md", generate_markdown_report(analysis))
    /\ Written("relatorio_sym_supply_rag.md", generate_rag_report(analysis))
    /\ Written("relatorio_curadoria.md", generate_curadoria_report(analysis))

RefinementFailed ==
    /\ stdout # <<>>
    /\ stdout[Len(stdout)] = "Relatorio basico gerado em 'relatorio_sym_supply.md'."

(* C13: the three primary reports are written before the refinement is     *)
(* attempted, and they are still there, unrefined, when the run has        *)
(* finished, also when the refinement failed (no refined report is written *)
(* then); the only run that stops without finishing stopped inside         *)
(* run_analysis, before any report.                                        *)
C13_PrimaryReportsSurviveRefinement ==
    /\ pc \in {"refine", "finished"} => UnrefinedAvailable
    /\ pc = "finished" /\ RefinementFailed => "relatorio_sym_supply_gpt.md" \notin DOMAIN reports
    /\ pc = "raised" => reports = <<>> /\ stdout = <<>>

(* C13 witness: the API call raised and the run finished *)
C13_Witness ==
    /\ pc = "finished"
    /\ RefinementFailed
    /\ api_key_of(env) = "sk"
    /\ analysis.tables # <<>>

----------------------------------------------------------------------------
(* categorize_column called on its own *)

ColumnNames ==
    {"order_id", "Payment_Date_ID", "created_at", "Updated_At", "due_date", "friend",
     "validated", "is_updated", "is_paid", "IS_OPEN", "paid_flag", "ativo", "Active",
     "valid", "valor", "Valor_Status", "end_value", "amount", "PRECO", "unit_price",
     "grand_total", "Grand_Total", "total", "Total", "subtotal", "total_items",
     "status", "check_out", "validation_code", "qty", "name", "id", "at"}

InitCategorize ==
    /\ \E col_name \in ColumnNames :
       \E dtype \in {"int64", "float64", "uint64", "object", "bool", "datetime64[ns]"} :
           args = [col_name |-> col_name, dtype |-> dtype]
    /\ sort_ties = "first"
    /\ pc = "call"
    /\ ret = None
    /\ INPUT_FILES = <<>>
    /\ idx = 1
    /\ analysis = NoResult
    /\ run = 1
    /\ first = NoResult
    /\ env = NoEnv
    /\ reports = <<>>
    /\ stdout = <<>>

CallCategorizeColumn ==
    /\ pc = "call"
    /\ ret' = categorize_column(args.col_name, args.dtype)
    /\ pc' = "returned"
    /\ UNCHANGED <<INPUT_FILES, idx, analysis, run, first, sort_ties, args, env, reports, stdout>>

NextCategorize == CallCategorizeColumn

SpecCategorize == InitCategorize /\ [][NextCategorize]_vars

(* the rules of the cascade, on the lower-cased name *)
HasAny(name, words) == \E w \in words : contains(name, w)

EndsWithId(name) == endswith(name, "_id")

LooksTemporal(name) ==
    \/ endswith(name, "_at")
    \/ HasAny(name, {"date", "data", "time", "inicio", "fim", "end", "updated", "created"})

LooksBoolean(name) ==
    \/ name \in {"ativo", "active", "valid"}
    \/ startswith(name, "is_")
    \/ endswith(name, "_flag")

LooksStatus(name) == HasAny(name, {"status", "validation", "check"})

(* the category of the first rule that matches, given the monetary words   *)
(* and the dtypes that count as numbers                                    *)
FirstMatch(name, dtype, monetary_words, number_dtypes) ==
    IF EndsWithId(name) THEN "relacional"
    ELSE IF LooksTemporal(name) THEN "temporal"
    ELSE IF LooksBoolean(name) THEN "boolean"
    ELSE IF HasAny(name, monetary_words) THEN "monetaria"
    ELSE IF LooksStatus(name) THEN "status"
    ELSE IF dtype \in number_dtypes THEN "numerica"
    ELSE "categorica"

(* C15: categorize_column returns the category of the first matching rule  *)
(* of the cascade, case-insensitively on the name; a name that matches no  *)
(* earlier rule and contains one of valor, value, amount, preco, price,    *)
(* total is monetary, and an integer or floating dtype is numeric.         *)
C15_FirstRuleWinsTotalMonetary ==
    pc = "returned" =>
        ret = FirstMatch(lower(args.col_name), args.dtype,
                         {"valor", "value", "amount", "preco", "price", "total"},
                         {"int64", "uint64", "float64"})

(* C15, amended: the monetary rule looks for _total (with the underscore)  *)
(* and the numeric rule for a dtype whose name starts with int or float.   *)
C15_FirstRuleWinsUnderscoreTotalMonetary ==
    pc = "returned" =>
        ret = FirstMatch(lower(args.col_name), args.dtype,
                         {"valor", "value", "amount", "preco", "price", "_total"},
                         {"int64", "float64"})

(* C15 witness: a mixed-case name whose only match is _total was categorized *)
C15_Witness ==
    /\ pc = "returned"
    /\ args.col_name = "Grand_Total"
    /\ args.dtype = "int64"
    /\ ret = "monetaria"

====
